---------------------------- MODULE Spec2Model ----------------------------
(* Model of app.py: the risk engine compute_risk and the Streamlit script  *)
(* that calls it, filters the scores and mails a summary.                  *)
(*                                                                         *)
(* Time is counted in whole seconds since 2025-12-01 00:00:00.  A raw      *)
(* "Time" cell is the tuple <<day, hour, minute, second>> of a date in     *)
(* December 2025 (written day first); any other tuple is an unparseable    *)
(* cell.  A string is a tuple of one-character strings, an IP address the  *)
(* tuple of its octets (<<>> is the empty string).  The log is a bag of    *)
(* rows: no column computed by compute_risk depends on the row order.      *)
EXTENDS Integers, Sequences, FiniteSets, Bags, TLC

VARIABLES
    df_raw,      \* the loaded log: a bag of rows                (line 28)
    columns,     \* the column names of the loaded log           (line 31)
    clock,       \* the wall clock pd.Timestamp.now() reads
    now,         \* compute_risk's local now of the last run     (line 64)
    df_risk,     \* what the last compute_risk call produced     (line 119)
    risk_cut,    \* the slider's value                           (line 122)
    risky,       \* the table the last run displayed             (line 123)
    coord_mail,  \* the text input's value                       (line 135)
    notif_log,   \* st.session_state.notif_log                   (line 163)
    stage,       \* where the last run of the script ended
    outcome,     \* what the notify handler did in the last run
    msg,         \* the student lines of the mail the last run sent
    log_shown    \* whether the last run displayed the notification log

vars == <<df_raw, columns, clock, now, df_risk, risk_cut, risky, coord_mail,
          notif_log, stage, outcome, msg, log_shown>>

-----------------------------------------------------------------------------
(* Bounds of the model *)

MaxRows == 5
MaxTicks == 1
SessionRows == 2
SchemaRows == 2
MaxSends == 2

-----------------------------------------------------------------------------
(* Values *)

NaT == -1
NaN == <<"NaN">>
NoBlock == <<>>

course_id == 83
assign_cmid == 2889

SecondsPerHour == 3600

\* pd.to_datetime(cell, dayfirst=True, errors="coerce")
to_datetime(raw) ==
    IF /\ Len(raw) = 4
       /\ raw[1] \in 1..31
       /\ raw[2] \in 0..23
       /\ raw[3] \in 0..59
       /\ raw[4] \in 0..59
    THEN ((raw[1] - 1) * 24 + raw[2]) * SecondsPerHour + raw[3] * 60 + raw[4]
    ELSE NaT

deadline == to_datetime(<<17, 23, 59, 59>>)

TickStep == SecondsPerHour
ClockStart == to_datetime(<<17, 0, 0, 0>>)

\* str(n) for n >= 0
RECURSIVE str(_)
str(n) ==
    LET d == <<"0", "1", "2", "3", "4", "5", "6", "7", "8", "9">>[(n % 10) + 1]
    IN  IF n < 10 THEN <<d>> ELSE Append(str(n \div 10), d)

\* Series.str.contains(pat, na=False) on one cell
contains(s, pat) ==
    /\ s # NaN
    /\ \E i \in 1..(Len(s) - Len(pat) + 1) : SubSeq(s, i, i + Len(pat) - 1) = pat

\* Series.str.extract(r"(\d+\.\d+\.\d+)\.\d+") on one cell
extract_block(ip) == IF Len(ip) >= 4 THEN SubSeq(ip, 1, 3) ELSE NoBlock

\* Series.dt.floor("5min") on one cell
floor5min(t) == IF t = NaT THEN NaT ELSE t - (t % (5 * 60))

-----------------------------------------------------------------------------
(* The logs the model uploads *)

Row(u, t, e, d, ip) ==
    [User_full_name |-> u, Time |-> t, Event_name |-> e,
     Description |-> d, IP_address |-> ip]

RowPool ==
    { Row("amy", <<15, 0, 0, 0>>, "Grade user report viewed", <<>>, <<10, 0, 0, 5>>),
      Row("amy", <<18, 0, 0, 0>>, "Grade user report viewed", <<>>, <<10, 0, 1, 9>>),
      Row("amy", <<0, 0>>, "Grade user report viewed", NaN, <<>>),
      Row("amy", <<16, 23, 59, 59>>, "Course viewed", <<>>, <<10, 0, 0, 77>>),
      Row("amy", <<17, 0, 0, 0>>, "Course viewed", <<>>, <<10, 0, 0, 77>>),
      Row("amy", <<16, 23, 59, 58>>,
          "The status of the submission has been viewed.", <<>>, <<10, 0, 0, 5>>),
      Row("amy", <<16, 23, 59, 58>>, "Course module viewed",
          <<"i", "d", " ", "'", "2", "8", "8", "9", "'">>, <<10, 0, 0, 5>>),
      Row("amy", <<16, 23, 59, 58>>, "Forum post created", <<>>, <<10, 0, 0, 5>>),
      Row("bob", <<15, 0, 0, 0>>, "Course module viewed", <<"2", "8", "9">>,
          <<10, 0, 0, 5>>) }

\* the rows of the session's logs
SessionPool ==
    {r \in RowPool :
        \/ r.Event_name \in {"Course module viewed", "Forum post created"}
        \/ r.Time = <<18, 0, 0, 0>>}

Required == {"User full name", "Time", "Event name", "Description", "IP address"}

-----------------------------------------------------------------------------
(* compute_risk *)

\* df[mask]: the rows of df the mask keeps, with their multiplicities
masked(df, keep) == [r \in keep |-> df[r]]

Time(r) == to_datetime(r.Time)

Min(S) == CHOOSE x \in S : \A y \in S : x <= y
Max(S) == CHOOSE x \in S : \A y \in S : x >= y

\* mutant: once anybody has opened the assignment, everybody counts as having
has_opened_anybody(df) ==
    IF \E r \in DOMAIN df : /\ r.Event_name = "Course module viewed"
                             /\ contains(r.Description, str(assign_cmid))
    THEN {r.User_full_name : r \in DOMAIN df}
    ELSE {}

\* 1. zero-resource
has_opened(df) ==
    LET opened(r) == /\ r.Event_name = "Course module viewed"
                     /\ contains(r.Description, str(assign_cmid))
    IN  {r.User_full_name : r \in {x \in DOMAIN df : opened(x)}}

zero_resource(df, x) == ~(x \in has_opened(df))

\* 2. last-minute first access
first_access(df, x) ==
    LET ts == {Time(r) : r \in {y \in DOMAIN df : y.User_full_name = x}} \ {NaT}
    IN  IF ts = {} THEN NaT ELSE Min(ts)

\* mutant: a user without any parsed Time falls back to the deadline
lastmin_first_fillna(df, x) ==
    LET fa  == first_access(df, x)
        got == IF fa = NaT THEN deadline ELSE fa
    IN  (deadline - got) <= 24 * SecondsPerHour

lastmin_first(df, x) ==
    LET got == IF \E r \in DOMAIN df : r.User_full_name = x
               THEN first_access(df, x) ELSE deadline
    IN  /\ got # NaT
        /\ (deadline - got) <= 24 * SecondsPerHour

\* 3. grade-book snooping
recent(df, t) ==
    LET ge(r) == Time(r) # NaT /\ Time(r) >= t - 48 * SecondsPerHour
    IN  masked(df, {r \in DOMAIN df : ge(r)})

grade_snoop(df, t, x) ==
    LET rec == recent(df, t)
        mine(r) == /\ r.Event_name = "Grade user report viewed"
                   /\ r.User_full_name = x
    IN  BagCardinality(masked(rec, {r \in DOMAIN rec : mine(r)}))

\* 4. no draft + status checks
status_checks(df, x) ==
    LET mine(r) == /\ r.Event_name = "The status of the submission has been viewed."
                   /\ r.User_full_name = x
    IN  BagCardinality(masked(df, {r \in DOMAIN df : mine(r)}))

no_draft == TRUE

\* 5. section-hopping binge
hop_binge(df, x) ==
    LET viewed(r) == /\ r.Event_name = "Course viewed"
                     /\ r.User_full_name = x
                     /\ floor5min(Time(r)) # NaT
        mine == masked(df, {r \in DOMAIN df : viewed(r)})
        hop(m) == BagCardinality(
                      masked(mine, {r \in DOMAIN mine : floor5min(Time(r)) = m}))
        buckets == {floor5min(Time(r)) : r \in DOMAIN mine}
    IN  IF buckets = {} THEN 0 ELSE Max({hop(m) : m \in buckets})

\* 6. help silence
help_events == {"Forum post created", "Message sent", "FAQ viewed"}

help_count(df, x) ==
    \E r \in DOMAIN df : r.Event_name \in help_events /\ r.User_full_name = x

\* 7. geo jumps
geo_jumps(df, x) ==
    LET mine(r) == r.IP_address # <<>> /\ r.User_full_name = x
    IN  Cardinality({extract_block(r.IP_address) : r \in {y \in DOMAIN df : mine(y)}}
                    \ {NoBlock})

int(b) == IF b THEN 1 ELSE 0

\* mutant: the snoop count is added instead of its indicator
risk_score_adds_count(c) ==
    int(c.zero_resource) +
    int(c.lastmin_first) +
    c.grade_snoop +
    int(c.no_draft /\ c.status_checks >= 4) +
    int(c.hop_binge >= 5) +
    int(~c.help_count) +
    int(c.geo_jumps >= 2)

\* mutant: help silence is scored without the inversion
risk_score_help_not_inverted(c) ==
    int(c.zero_resource) +
    int(c.lastmin_first) +
    int(c.grade_snoop >= 3) +
    int(c.no_draft /\ c.status_checks >= 4) +
    int(c.hop_binge >= 5) +
    int(c.help_count) +
    int(c.geo_jumps >= 2)

\* assemble score
risk_score(c) ==
    int(c.zero_resource) +
    int(c.lastmin_first) +
    int(c.grade_snoop >= 3) +
    int(c.no_draft /\ c.status_checks >= 4) +
    int(c.hop_binge >= 5) +
    int(~c.help_count) +
    int(c.geo_jumps >= 2)

\* mutant: the geo jumps are counted over the recent rows only
signals_geo_recent(df, t, x) ==
    [zero_resource |-> zero_resource(df, x),
     lastmin_first |-> lastmin_first(df, x),
     grade_snoop   |-> grade_snoop(df, t, x),
     status_checks |-> status_checks(df, x),
     no_draft      |-> no_draft,
     hop_binge     |-> hop_binge(df, x),
     help_count    |-> help_count(df, x),
     geo_jumps     |-> geo_jumps(recent(df, t), x)]

\* the per-user aggregates, as the map calls attach them to a user's rows
signals(df, t, x) ==
    [zero_resource |-> zero_resource(df, x),
     lastmin_first |-> lastmin_first(df, x),
     grade_snoop   |-> grade_snoop(df, t, x),
     status_checks |-> status_checks(df, x),
     no_draft      |-> no_draft,
     hop_binge     |-> hop_binge(df, x),
     help_count    |-> help_count(df, x),
     geo_jumps     |-> geo_jumps(df, x)]

\* mutant: the IP address column is read only when it is there
columns_read_ip_optional == {"Time", "Event name", "Description", "User full name"}

\* the columns compute_risk reads with df[...]; a missing one raises KeyError
columns_read == {"Time", "Event name", "Description", "User full name", "IP address"}

\* the returned frame: per row, the parsed Time and the derived columns
compute_risk(df, cols, t) ==
    IF ~(columns_read \subseteq cols)
    THEN [raised |-> TRUE, table |-> << >>]
    ELSE LET users == {r.User_full_name : r \in DOMAIN df}
             sig   == [x \in users |->
                         LET c == signals(df, t, x)
                         IN  c @@ [risk_score |-> risk_score(c)]]
         IN  [raised |-> FALSE,
              table  |-> [r \in DOMAIN df |->
                            sig[r.User_full_name] @@
                            [Time     |-> Time(r),
                             minute5  |-> floor5min(Time(r)),
                             ip_block |-> extract_block(r.IP_address)]]]

-----------------------------------------------------------------------------
(* The script below compute_risk: table, notifier, in-app log *)

\* df_risk[["User full name", "risk_score"]].drop_duplicates()
drop_duplicates(table) ==
    {<<r.User_full_name, table[r].risk_score>> : r \in DOMAIN table}

\* mutant: the sort is ascending
sort_values_ascending(pairs) ==
    LET n == Cardinality(pairs)
    IN  {s \in [1..n -> pairs] :
            /\ \A i, j \in 1..n : i # j => s[i] # s[j]
            /\ \A i, j \in 1..n : i < j => s[i][2] <= s[j][2]}

\* .sort_values("risk_score", ascending=False): the default sort is not stable,
\* so every arrangement with the scores in descending order is a possible result
sort_values(pairs) ==
    LET n == Cardinality(pairs)
    IN  {s \in [1..n -> pairs] :
            /\ \A i, j \in 1..n : i # j => s[i] # s[j]
            /\ \A i, j \in 1..n : i < j => s[i][2] >= s[j][2]}

\* .query("risk_score >= @risk_cut")
query(s, cut) == LET keep(p) == p[2] >= cut IN SelectSeq(s, keep)

\* f"{pd.Timestamp.now():%H:%M}"
strftime_HM(t) == <<(t \div SecondsPerHour) % 24, (t \div 60) % 60>>

log_line(t, shown) == [at |-> strftime_HM(t), students |-> Len(shown)]

\* where a run ends: compute_risk raised (line 119), st.stop() at line 131,
\* st.stop() at line 143, or the end of the script
stage_of(raised, shown, clicked, mail) ==
    IF raised THEN "raised"
    ELSE IF shown = << >> THEN "empty"
    ELSE IF clicked /\ mail = "" THEN "no_recipient"
    ELSE "end"

\* the notify button handler: what it did
handler(reached, clicked, mail, smtp_ok) ==
    IF ~(reached /\ clicked) THEN "none"
    ELSE IF mail = "" THEN "no_recipient"
    ELSE IF smtp_ok THEN "sent"
    ELSE "failed"

\* mutant: the line is appended after the try block, sent or not
log_after_any_attempt(did, log, t, shown) ==
    IF did \in {"sent", "failed"} THEN Append(log, log_line(t, shown)) ELSE log

\* st.session_state.notif_log after the handler
log_after(did, log, t, shown) ==
    IF did = "sent" THEN Append(log, log_line(t, shown)) ELSE log

\* the "if st.session_state.get("notif_log")" display at the end of the script
display_log(ended, log) == ended = "end" /\ log # << >>

\* a rerun of the whole script with the given file and widget values
run(df, cols, cut, mail, clicked, smtp_ok) ==
    /\ df_raw' = df
    /\ columns' = cols
    /\ risk_cut' = cut
    /\ coord_mail' = mail
    /\ now' = clock
    /\ df_risk' = compute_risk(df, cols, clock)
    /\ \E sorted \in sort_values(drop_duplicates(df_risk'.table)) :
          risky' = query(sorted, cut)
    /\ stage' = stage_of(df_risk'.raised, risky', clicked, mail)
    /\ outcome' = handler(stage' \in {"no_recipient", "end"}, clicked, mail, smtp_ok)
    /\ msg' = IF outcome' = "sent" THEN risky' ELSE << >>
    /\ notif_log' = log_after(outcome', notif_log, clock, risky')
    /\ log_shown' = display_log(stage', notif_log')
    /\ UNCHANGED clock

Coordinator == "coordinator@example.org"

\* the first run of a session: empty log, the widgets' default values
Init ==
    /\ df_raw = EmptyBag
    /\ columns = Required
    /\ clock = ClockStart
    /\ now = ClockStart
    /\ df_risk = compute_risk(EmptyBag, Required, ClockStart)
    /\ risk_cut = 4
    /\ coord_mail = ""
    /\ risky = << >>
    /\ notif_log = << >>
    /\ stage = "empty"
    /\ outcome = "none"
    /\ msg = << >>
    /\ log_shown = FALSE

\* a file with one more row is uploaded
UploadAddRow(r, max) ==
    /\ BagCardinality(df_raw) < max
    /\ run(df_raw (+) SetToBag({r}), columns, risk_cut, coord_mail, FALSE, FALSE)

\* a file with one row less is uploaded
UploadRemoveRow(r) ==
    /\ BagIn(r, df_raw)
    /\ run(df_raw (-) SetToBag({r}), columns, risk_cut, coord_mail, FALSE, FALSE)

\* a file without column c is uploaded
UploadWithoutColumn(c) ==
    /\ columns = Required
    /\ run(df_raw, Required \ {c}, risk_cut, coord_mail, FALSE, FALSE)

\* a file with every column is uploaded again
UploadWithColumns ==
    /\ columns # Required
    /\ run(df_raw, Required, risk_cut, coord_mail, FALSE, FALSE)

\* the script reruns with nothing changed
Rerun == run(df_raw, columns, risk_cut, coord_mail, FALSE, FALSE)

\* the slider is moved
MoveSlider(c) ==
    /\ stage # "raised"
    /\ c # risk_cut
    /\ run(df_raw, columns, c, coord_mail, FALSE, FALSE)

\* the coordinator e-mail is edited
EditMail(m) ==
    /\ stage \in {"no_recipient", "end"}
    /\ m # coord_mail
    /\ run(df_raw, columns, risk_cut, m, FALSE, FALSE)

\* the notify button is clicked; the SMTP exchange succeeds or raises
ClickNotify(smtp_ok) ==
    /\ stage \in {"no_recipient", "end"}
    /\ smtp_ok => Len(notif_log) < MaxSends
    /\ run(df_raw, columns, risk_cut, coord_mail, TRUE, smtp_ok)

\* time passes
Tick ==
    /\ clock < ClockStart + MaxTicks * TickStep
    /\ clock' = clock + TickStep
    /\ UNCHANGED <<df_raw, columns, now, df_risk, risk_cut, risky, coord_mail,
                   notif_log, stage, outcome, msg, log_shown>>

\* the risk engine under changing logs and a running clock
Next ==
    \/ \E r \in RowPool : UploadAddRow(r, MaxRows)
    \/ \E r \in RowPool : UploadRemoveRow(r)
    \/ Rerun
    \/ Tick

Spec == Init /\ [][Next]_vars

\* logs with and without the required columns
NextSchema ==
    \/ \E r \in RowPool : UploadAddRow(r, SchemaRows)
    \/ \E r \in RowPool : UploadRemoveRow(r)
    \/ \E c \in Required : UploadWithoutColumn(c)
    \/ UploadWithColumns
    \/ Rerun

SpecSchema == Init /\ [][NextSchema]_vars

\* one user session: uploads, slider, recipient, notify clicks
NextSession ==
    \/ \E r \in SessionPool : UploadAddRow(r, SessionRows)
    \/ \E r \in SessionPool : UploadRemoveRow(r)
    \/ \E c \in 0..7 : MoveSlider(c)
    \/ \E m \in {"", Coordinator} : EditMail(m)
    \/ \E ok \in BOOLEAN : ClickNotify(ok)
    \/ Rerun

SpecSession == Init /\ [][NextSession]_vars

-----------------------------------------------------------------------------
(* Properties of compute_risk *)

Table == df_risk.table
UserOf(r) == r.User_full_name
RowsOf(u) == {r \in DOMAIN Table : UserOf(r) = u}

\* C1: every row of the table compute_risk returns has a risk_score that is
\* an integer from 0 to 7
RiskScoreInRange ==
    \A r \in DOMAIN Table : Table[r].risk_score \in 0..7

\* a returned row scores 5: the most a log within the bounds gives
RiskScoreHighReached ==
    /\ ~df_risk.raised
    /\ \E r \in DOMAIN Table : Table[r].risk_score >= 5

\* the indicators of a returned row that fire
Fired(c) ==
    {i \in 1..7 :
        \/ i = 1 /\ c.zero_resource
        \/ i = 2 /\ c.lastmin_first
        \/ i = 3 /\ c.grade_snoop >= 3
        \/ i = 4 /\ c.no_draft /\ c.status_checks >= 4
        \/ i = 5 /\ c.hop_binge >= 5
        \/ i = 6 /\ ~c.help_count
        \/ i = 7 /\ c.geo_jumps >= 2}

\* C2: every row's risk_score is the number of the seven indicators that fire
\* on the row's own columns, each counting 1, and no_draft is true on every row
ScoreIsCountOfIndicators ==
    \A r \in DOMAIN Table :
        /\ Table[r].no_draft = TRUE
        /\ Table[r].risk_score = Cardinality(Fired(Table[r]))

\* a row on which the status-check and geo indicators fire among four
FourIndicatorsReached ==
    \E r \in DOMAIN Table :
        /\ Table[r].status_checks >= 4
        /\ Table[r].geo_jumps >= 2
        /\ Table[r].risk_score = 4

\* C3 as claimed: a run on the same log as the run before it returns the same
\* table, whenever it is executed
SameLogSameOutput ==
    [][(df_raw' = df_raw /\ columns' = columns) => df_risk' = df_risk]_vars

\* the columns of a row that do not depend on the moment of the run
Timeless(c) == [c EXCEPT !.grade_snoop = 0, !.risk_score = 0]

Abs(n) == IF n < 0 THEN -n ELSE n

\* C3 as amended: a run on the same log as the run before it returns the same
\* table when it reads the same clock value; executed at another moment it
\* can differ in grade_snoop, and through it in risk_score by at most 1, and
\* in nothing else
SameLogSameOutputButSnoop ==
    [][(df_raw' = df_raw /\ columns' = columns) =>
          /\ now' = now => df_risk' = df_risk
          /\ df_risk'.raised = df_risk.raised
          /\ \A r \in DOMAIN Table :
                /\ Timeless(df_risk'.table[r]) = Timeless(Table[r])
                /\ Abs(df_risk'.table[r].risk_score - Table[r].risk_score) <= 1
                /\ df_risk'.table[r].grade_snoop <= Table[r].grade_snoop]_vars

\* the last run was executed after a grade view had left the 48 hours window
\* it was in when the session started
LaterRunLostSnoopReached ==
    /\ now > ClockStart
    /\ \E r \in DOMAIN Table :
          /\ r.Event_name = "Grade user report viewed"
          /\ Table[r].Time # NaT
          /\ Table[r].Time >= ClockStart - 48 * SecondsPerHour
          /\ Table[r].Time < now - 48 * SecondsPerHour
          /\ Table[r].grade_snoop = 0

OnlyUser(df, u) == masked(df, {r \in DOMAIN df : r.User_full_name = u})

SnoopsInWindow(u) ==
    LET hit(r) == /\ r.User_full_name = u
                  /\ r.Event_name = "Grade user report viewed"
                  /\ Time(r) # NaT
                  /\ now - 48 * SecondsPerHour <= Time(r)
                  /\ Time(r) <= now
    IN  BagCardinality(masked(df_raw, {r \in DOMAIN df_raw : hit(r)}))

\* C5 as claimed: grade_snoop is the number of the user's grade views with
\* now - 48 h <= timestamp <= now; later and null timestamps are not counted
GradeSnoopIsLast48h ==
    \A r \in DOMAIN Table : Table[r].grade_snoop = SnoopsInWindow(UserOf(r))

\* C6: lastmin_first is true exactly when the user has a parsed timestamp and
\* the deadline is at most 24 hours after the earliest of them; a user with no
\* parsed timestamp is not flagged
LastminFirstIffEarliestWithin24h ==
    \A r \in DOMAIN Table :
        Table[r].lastmin_first <=>
            \E q \in RowsOf(UserOf(r)) :
                /\ Table[q].Time # NaT
                /\ \A p \in RowsOf(UserOf(r)) :
                      Table[p].Time # NaT => Table[q].Time <= Table[p].Time
                /\ deadline - Table[q].Time <= 24 * 3600

\* a user none of whose rows has a parsed timestamp, not flagged and scored
UnparsedUserReached ==
    \E r \in DOMAIN Table :
        /\ \A q \in RowsOf(UserOf(r)) : Table[q].Time = NaT
        /\ ~Table[r].lastmin_first
        /\ Table[r].risk_score = 2

\* C7: with a required column missing compute_risk raises: it returns no
\* table, no row gets a risk_score, and the script run ends at the call
MissingColumnRaises ==
    columns # Required =>
        /\ df_risk.raised
        /\ DOMAIN Table = {}
        /\ stage = "raised"
        /\ risky = << >>

\* a log with rows and without one of the columns was loaded
MissingColumnReached ==
    /\ columns # Required
    /\ df_raw # EmptyBag
    /\ df_risk.raised

-----------------------------------------------------------------------------
(* Properties of the session *)

\* C8: the notification log only grows, by exactly one line per mail sent; a
\* failed send, a click without a recipient and a run without a click leave
\* it as it was; a failed send is caught: the run goes on to the end of the
\* script, with the button rendered for another send
NotifLogAppendOnly ==
    [][/\ outcome' = "sent" =>
            /\ Len(notif_log') = Len(notif_log) + 1
            /\ SubSeq(notif_log', 1, Len(notif_log)) = notif_log
       /\ outcome' # "sent" => notif_log' = notif_log
       /\ outcome' = "failed" => stage' = "end"]_vars

\* a send failed in a session that had sent a mail before
FailedSendAfterSentReached ==
    /\ outcome = "failed"
    /\ Len(notif_log) >= 1

\* C9 as claimed: once the notification log holds an entry, every run of the
\* script displays it
LogAlwaysDisplayed ==
    notif_log # << >> => log_shown

\* C10: the displayed list names each user at most once, names exactly the
\* users whose risk_score is at least risk_cut, each with the score all of the
\* user's rows carry, in descending order of score; the mail lists the same
RiskyListIsTheRanking ==
    stage # "raised" =>
        /\ \A i, j \in 1..Len(risky) : i # j => risky[i][1] # risky[j][1]
        /\ {risky[i][1] : i \in 1..Len(risky)} =
              {UserOf(r) : r \in {x \in DOMAIN Table : Table[x].risk_score >= risk_cut}}
        /\ \A i \in 1..Len(risky) :
              \A r \in RowsOf(risky[i][1]) : Table[r].risk_score = risky[i][2]
        /\ \A i, j \in 1..Len(risky) : i < j => risky[i][2] >= risky[j][2]
        /\ outcome = "sent" => msg = risky

\* a mail went out listing two users, the higher score first
TwoRankedAndMailedReached ==
    /\ Len(risky) = 2
    /\ risky[1][2] > risky[2][2]
    /\ risky[1][1] = "bob"
    /\ outcome = "sent"
    /\ msg = risky

=============================================================================
